---- MODULE Spec2Model ----
(***************************************************************************)
(* The YOLOv8 -> TFLite conversion pipeline of                             *)
(* scripts/enhanced_convert_yolov8_to_tflite.py as a sequential state      *)
(* machine.  The wrapped libraries (ultralytics, onnx, tensorflow, the     *)
(* filesystem) are the environment: each library call either returns or    *)
(* raises, chosen nondeterministically.                                    *)
(***************************************************************************)
EXTENDS Integers, Sequences, FiniteSets, TLC

\* ---- bounds of the model (not program constants) ----
\* how many times the converter library may ask for the calibration stream
MaxCalibRequests == 2

\* ---- program constants ----
input_size == 640
CalibrationSamples == 100
WarmupRuns == 5
num_runs == 50

\* ---- command line (main, argparse) ----
Quantizations == {"none", "fp16", "int8", "all"}
Modes == {"none", "fp16", "int8"}
\* --output-dir / --model-name: the defaults, and a choice that puts the
\* interchange file where the library writes it
Configs ==
    {[output_dir |-> "./models", model_name |-> "golfclub_ball_yolov8n"],
     [output_dir |-> "weights", model_name |-> "best"]}
\* the positional model_path argument, split the way pathlib sees it
ModelPath == [dir |-> "weights", stem |-> "best", suffix |-> ".pt"]

\* ---- pathlib ----
PathStr(p) == p.dir \o "/" \o p.stem \o p.suffix
with_suffix(p, s) == [p EXCEPT !.suffix = s]
Join(dir, file) == dir \o "/" \o file

\* ---- YOLOv8ToTFLiteConverter.__init__ : the output paths ----
onnx_path(a) == Join(a.output_dir, a.model_name \o ".onnx")
tflite_path(a) == Join(a.output_dir, a.model_name \o ".tflite")
tflite_fp16_path(a) == Join(a.output_dir, a.model_name \o "_fp16.tflite")
tflite_int8_path(a) == Join(a.output_dir, a.model_name \o "_int8.tflite")
metadata_path(a) == Join(a.output_dir, a.model_name \o "_metadata.json")
generated_onnx(a) == PathStr(with_suffix(a.model_path, ".onnx"))

OutputPaths(a) ==
    {onnx_path(a), tflite_path(a), tflite_fp16_path(a), tflite_int8_path(a),
     metadata_path(a)}
RunPaths(a) == OutputPaths(a) \cup {PathStr(a.model_path), generated_onnx(a)}

\* ---- file contents ----
\* state: "absent", "stale" (there before the run), "run" (written by the run)
Absent ==
    [state |-> "absent", kind |-> "", name |-> "", input_shape |-> <<>>,
     input_type |-> "", size |-> 0]
StaleFile == [Absent EXCEPT !.state = "stale", !.kind = "old", !.size = 1]
SourceFile == [Absent EXCEPT !.state = "stale", !.kind = "pt", !.size = 1]
OnnxFile == [Absent EXCEPT !.state = "run", !.kind = "onnx", !.size = 1]
PartialFile(k) == [Absent EXCEPT !.state = "run", !.kind = k]
Exists(f, p) == f[p].state # "absent"

VARIABLES
    args,          \* parsed command line
    fs,            \* path -> file content
    dirs,          \* directories that exist
    pc,            \* position in the script
    exitStatus,    \* process exit status, -1 while running
    exc,           \* origin of the exception that propagated, "none" if none
    exportResult,  \* return value of export_to_onnx: "none", "T", "F"
    onnxVerified,  \* return value of _verify_onnx_model: "none", "T", "F"
    success,       \* the local `success` of convert_all_variants / main
    variants,      \* modes still to convert
    cur,           \* quantization argument of the running convert_to_tflite
    converter,     \* the TFLiteConverter being configured
    output_path,   \* local output_path of convert_to_tflite
    fs0,           \* the filesystem when the running convert_to_tflite began
    convResult,    \* mode -> return value of convert_to_tflite
    verifyResult,  \* mode -> return value of _verify_tflite_model
    benchOutcome,  \* mode -> how _benchmark_model ended: "ok" or "failed"
    benchFailure,  \* what raised in the last _benchmark_model, "none" if nothing
    gen,           \* the running _representative_dataset_generator
    calibRequests, \* how often the stream was requested in this convert
    calibBy,       \* modes whose convert requested the stream
    calibShapes,   \* shapes of the tensors yielded so far
    i,             \* loop index of the benchmark loops
    inferences,    \* inferences of the running benchmark, in order
    times,         \* the list `times` of _benchmark_model
    log            \* calls and filesystem writes of the run, in order

vars ==
    <<args, fs, dirs, pc, exitStatus, exc, exportResult, onnxVerified, success,
      variants, cur, converter, output_path, fs0, convResult, verifyResult,
      benchOutcome, benchFailure, gen, calibRequests, calibBy, calibShapes, i, inferences,
      times, log>>

ctl == <<pc, exitStatus, exc>>
pipe == <<exportResult, onnxVerified, success, variants>>
conv == <<cur, converter, output_path, fs0, convResult>>
diag == <<verifyResult, benchOutcome, benchFailure>>
calib == <<gen, calibRequests, calibBy, calibShapes>>
bench == <<i, inferences, times>>

\* ---- the log: one entry per call and per filesystem write ----
Ev(op, arg) == [op |-> op, arg |-> arg]

NoConverter ==
    [representative_dataset |-> FALSE, inference_input_type |-> "float32",
     inference_output_type |-> "float32", supported_types |-> <<>>]
NoGen == [state |-> "none", yielded |-> 0]

Init ==
    \E c \in Configs, q \in Quantizations,
       srcExists \in BOOLEAN, stale \in BOOLEAN :
        /\ args = [model_path |-> ModelPath, output_dir |-> c.output_dir,
                   model_name |-> c.model_name, quantization |-> q]
        /\ fs = [p \in RunPaths(args) |->
                    IF p = PathStr(ModelPath)
                    THEN IF srcExists THEN SourceFile ELSE Absent
                    ELSE IF stale /\ p \in OutputPaths(args)
                         THEN StaleFile ELSE Absent]
        /\ dirs = (IF srcExists THEN {ModelPath.dir} ELSE {})
                  \cup (IF stale THEN {c.output_dir} ELSE {})
        /\ pc = "main"
        /\ exitStatus = -1
        /\ exc = "none"
        /\ exportResult = "none"
        /\ onnxVerified = "none"
        /\ success = TRUE
        /\ variants = <<>>
        /\ cur = "none"
        /\ converter = NoConverter
        /\ output_path = ""
        /\ fs0 = fs
        /\ convResult = [m \in Modes |-> "none"]
        /\ verifyResult = [m \in Modes |-> "none"]
        /\ benchOutcome = [m \in Modes |-> "none"]
        /\ benchFailure = "none"
        /\ gen = NoGen
        /\ calibRequests = 0
        /\ calibBy = {}
        /\ calibShapes = {}
        /\ i = 0
        /\ inferences = <<>>
        /\ times = <<>>
        /\ log = <<>>

\* MainValidateInput without the existence check
MainValidateInput_NoCheck ==
    /\ pc = "main"
    /\ pc' = "init"
    /\ UNCHANGED <<args, fs, dirs, exitStatus, exc, pipe, conv, diag, calib,
                   bench, log>>

\* main, lines 331-339: validate the input file
MainValidateInput ==
    /\ pc = "main"
    /\ IF ~Exists(fs, PathStr(args.model_path))
       THEN /\ exitStatus' = 1
            /\ pc' = "done"
       ELSE /\ pc' = "init"
            /\ UNCHANGED exitStatus
    /\ UNCHANGED <<args, fs, dirs, exc, pipe, conv, diag, calib, bench, log>>

\* __init__: mkdir(parents=True, exist_ok=True); it is called outside main's
\* try, so an OSError ends the process with the interpreter's status 1
ConstructConverter ==
    /\ pc = "init"
    /\ \E ok \in BOOLEAN :
        IF ok
        THEN /\ dirs' = dirs \cup {args.output_dir}
             /\ log' = Append(log, Ev("mkdir", args.output_dir))
             /\ pc' = "load"
             /\ UNCHANGED <<exitStatus, exc>>
        ELSE /\ args.output_dir \notin dirs
             /\ exc' = "mkdir"
             /\ exitStatus' = 1
             /\ pc' = "done"
             /\ UNCHANGED <<dirs, log>>
    /\ UNCHANGED <<args, fs, pipe, conv, diag, calib, bench>>

\* load_yolo_model: returns the model or re-raises
LoadYoloModel ==
    /\ pc = "load"
    /\ log' = Append(log, Ev("load_yolo_model", ""))
    /\ \E ok \in BOOLEAN :
        IF ok
        THEN pc' = "export" /\ exc' = exc
        ELSE pc' = "except" /\ exc' = "load"
    /\ UNCHANGED <<args, fs, dirs, exitStatus, pipe, conv, diag, calib, bench>>

\* Path.rename(src, dst) on the file map
Rename(f, src, dst) ==
    IF src = dst THEN f
    ELSE [f EXCEPT ![dst] = f[src], ![src] = Absent]

\* _verify_onnx_model: onnx.load + checker, every exception caught
VerifyOnnxOutcomes(f, a) ==
    IF Exists(f, onnx_path(a)) /\ f[onnx_path(a)].kind = "onnx"
    THEN {"T", "F"} ELSE {"F"}

\* export_to_onnx: model.export, move the generated file, verify, return True;
\* any exception returns False.
\*   lib = "raises"   model.export raises
\*   lib = "default"  model.export leaves its file at <model_path>.onnx
\*   lib = "nofile"   model.export returns and leaves no file there
ExportToOnnx ==
    /\ pc = "export"
    /\ pc' = "export_ret"
    /\ \E lib \in {"raises", "default", "nofile"}, renameOk \in BOOLEAN :
        LET g == generated_onnx(args)
            called == log \o <<Ev("export_to_onnx", ""), Ev("model.export", "")>>
            fs1 == IF lib = "default" THEN [fs EXCEPT ![g] = OnnxFile] ELSE fs
            log1 == IF lib = "default"
                    THEN Append(called, Ev("library_write", g)) ELSE called
        IN  IF lib = "raises"
            THEN /\ renameOk
                 /\ exportResult' = "F"
                 /\ log' = called
                 /\ UNCHANGED <<fs, onnxVerified>>
            ELSE IF Exists(fs1, g)
            THEN IF renameOk
                 THEN /\ fs' = Rename(fs1, g, onnx_path(args))
                      /\ log' = Append(log1, Ev("rename", onnx_path(args)))
                      /\ onnxVerified' \in VerifyOnnxOutcomes(fs', args)
                      /\ exportResult' = "T"
                 ELSE /\ fs' = fs1
                      /\ log' = log1
                      /\ exportResult' = "F"
                      /\ UNCHANGED onnxVerified
            ELSE /\ renameOk
                 /\ fs' = fs1
                 /\ log' = log1
                 /\ onnxVerified' \in VerifyOnnxOutcomes(fs', args)
                 /\ exportResult' = "T"
    /\ UNCHANGED <<args, dirs, exitStatus, exc, success, variants, conv, diag,
                   calib, bench>>

\* the modes a quantization selection converts, in the order of conversion
VariantsOf(q) == IF q = "all" THEN <<"none", "fp16", "int8">> ELSE <<q>>

\* convert_all_variants, lines 300-308: early return when the export failed
ConvertAllVariantsAfterExport ==
    /\ pc = "export_ret"
    /\ args.quantization = "all"
    /\ IF exportResult # "T"
       THEN /\ success' = FALSE
            /\ pc' = "return"
            /\ UNCHANGED variants
       ELSE /\ variants' = VariantsOf(args.quantization)
            /\ pc' = "convert"
            /\ UNCHANGED success
    /\ UNCHANGED <<args, fs, dirs, exitStatus, exc, exportResult, onnxVerified,
                   conv, diag, calib, bench, log>>

\* main, lines 346-347: success = export_to_onnx(model); if success: ...
MainAfterExport ==
    /\ pc = "export_ret"
    /\ args.quantization # "all"
    /\ success' = (exportResult = "T")
    /\ IF exportResult # "T"
       THEN /\ pc' = "return"
            /\ UNCHANGED variants
       ELSE /\ variants' = VariantsOf(args.quantization)
            /\ pc' = "convert"
    /\ UNCHANGED <<args, fs, dirs, exitStatus, exc, exportResult, onnxVerified,
                   conv, diag, calib, bench, log>>

\* OutputPathFor with the fp16 branch writing to the unquantized path
OutputPathFor_SharedPath(a, q) ==
    IF q = "int8" THEN tflite_int8_path(a) ELSE tflite_path(a)

\* convert_to_tflite, lines 120-144: the output path of a quantization
OutputPathFor(a, q) ==
    IF q = "fp16" THEN tflite_fp16_path(a)
    ELSE IF q = "int8" THEN tflite_int8_path(a)
    ELSE tflite_path(a)

\* convert_to_tflite, lines 120-144: the converter settings of a quantization
ConfigureConverter(q) ==
    IF q = "fp16"
    THEN [NoConverter EXCEPT !.supported_types = <<"float16">>]
    ELSE IF q = "int8"
    THEN [NoConverter EXCEPT !.representative_dataset = TRUE,
                             !.inference_input_type = "uint8",
                             !.inference_output_type = "uint8"]
    ELSE [NoConverter EXCEPT !.supported_types = <<"float32">>]

\* convert_to_tflite, lines 111-148: read the interchange file (raises when
\* there is none) and configure the converter for the quantization
ConvertBegin ==
    /\ pc = "convert"
    /\ variants # <<>>
    /\ LET q == Head(variants) IN
        /\ cur' = q
        /\ variants' = Tail(variants)
        /\ log' = Append(log, Ev("convert_to_tflite", q))
        /\ fs0' = fs
        /\ gen' = NoGen
        /\ calibRequests' = 0
        /\ \E ok \in BOOLEAN :
            IF ok
            THEN /\ Exists(fs, onnx_path(args))
                 /\ converter' = ConfigureConverter(q)
                 /\ output_path' = OutputPathFor(args, q)
                 /\ pc' = "converting"
                 /\ UNCHANGED convResult
            ELSE /\ convResult' = [convResult EXCEPT ![q] = "F"]
                 /\ pc' = "convert_ret"
                 /\ UNCHANGED <<converter, output_path>>
    /\ UNCHANGED <<args, fs, dirs, exitStatus, exc, exportResult, onnxVerified,
                   success, diag, calibBy, calibShapes, bench>>

\* converter.convert() calls converter.representative_dataset when it is set:
\* a new _representative_dataset_generator starts
CalibRequest ==
    /\ pc = "converting"
    /\ converter.representative_dataset
    /\ gen.state # "active"
    /\ calibRequests < MaxCalibRequests
    /\ calibRequests' = calibRequests + 1
    /\ calibBy' = calibBy \cup {cur}
    /\ gen' = [state |-> "active", yielded |-> 0]
    /\ UNCHANGED <<args, fs, dirs, ctl, pipe, conv, diag, calibShapes, bench,
                   log>>

\* CalibNext with the range off by one
CalibNext_OffByOne ==
    /\ pc = "converting"
    /\ gen.state = "active"
    /\ IF gen.yielded < CalibrationSamples - 1
       THEN /\ gen' = [gen EXCEPT !.yielded = @ + 1]
            /\ calibShapes' =
                   calibShapes \cup {<<1, input_size, input_size, 3>>}
       ELSE /\ gen' = [gen EXCEPT !.state = "exhausted"]
            /\ UNCHANGED calibShapes
    /\ UNCHANGED <<args, fs, dirs, ctl, pipe, conv, diag, calibRequests,
                   calibBy, bench, log>>

\* _representative_dataset_generator: one next() of the generator
CalibNext ==
    /\ pc = "converting"
    /\ gen.state = "active"
    /\ IF gen.yielded < CalibrationSamples
       THEN /\ gen' = [gen EXCEPT !.yielded = @ + 1]
            /\ calibShapes' =
                   calibShapes \cup {<<1, input_size, input_size, 3>>}
       ELSE /\ gen' = [gen EXCEPT !.state = "exhausted"]
            /\ UNCHANGED calibShapes
    /\ UNCHANGED <<args, fs, dirs, ctl, pipe, conv, diag, calibRequests,
                   calibBy, bench, log>>

\* the bytes converter.convert() returns
TfliteModel(q, c) ==
    [state |-> "run", kind |-> "tflite", name |-> q,
     input_shape |-> <<1, input_size, input_size, 3>>,
     input_type |-> c.inference_input_type, size |-> 1]

\* convert_to_tflite, lines 150-157: convert and save.  An exception (convert
\* raises, open raises, write raises after open truncated the file) returns
\* False; convert() cannot return while it is still reading the stream.
ConvertAndWrite ==
    /\ pc = "converting"
    /\ \E out \in {"convert_raises", "open_raises", "write_raises", "ok"} :
        /\ out # "convert_raises" => gen.state # "active"
        /\ IF out = "ok"
           THEN /\ fs' = [fs EXCEPT ![output_path] = TfliteModel(cur, converter)]
                /\ log' = Append(log, Ev("write", output_path))
                /\ pc' = "verify"
                /\ UNCHANGED convResult
           ELSE /\ convResult' = [convResult EXCEPT ![cur] = "F"]
                /\ pc' = "convert_ret"
                /\ IF out = "write_raises"
                   THEN /\ fs' = [fs EXCEPT ![output_path] = PartialFile("tflite")]
                        /\ log' = Append(log, Ev("write", output_path))
                   ELSE UNCHANGED <<fs, log>>
    /\ gen' = NoGen
    /\ calibRequests' = 0
    /\ UNCHANGED <<args, dirs, exitStatus, exc, pipe, cur, converter,
                   output_path, fs0, diag, calibBy, calibShapes, bench>>

\* VerifyTfliteModel with a failed verification failing the conversion
VerifyTfliteModel_Propagating ==
    /\ pc = "verify"
    /\ \E ok \in BOOLEAN :
        /\ verifyResult' = [verifyResult EXCEPT ![cur] = IF ok THEN "T" ELSE "F"]
        /\ IF ok
           THEN pc' = "benchmark" /\ UNCHANGED convResult
           ELSE /\ pc' = "convert_ret"
                /\ convResult' = [convResult EXCEPT ![cur] = "F"]
    /\ UNCHANGED <<args, fs, dirs, exitStatus, exc, pipe, cur, converter,
                   output_path, fs0, benchOutcome, benchFailure, calib, bench,
                   log>>

\* _verify_tflite_model: load, one inference; every exception caught
VerifyTfliteModel ==
    /\ pc = "verify"
    /\ \E ok \in BOOLEAN :
        verifyResult' = [verifyResult EXCEPT ![cur] = IF ok THEN "T" ELSE "F"]
    /\ pc' = "benchmark"
    /\ UNCHANGED <<args, fs, dirs, exitStatus, exc, pipe, conv, benchOutcome,
                   benchFailure, calib, bench, log>>

\* how a benchmark that stops hands back to convert_to_tflite, which then
\* returns True (line 163)
BenchmarkEnds(how) ==
    /\ benchOutcome' =
           [benchOutcome EXCEPT ![cur] = IF how = "none" THEN "ok" ELSE "failed"]
    /\ benchFailure' = how
    /\ convResult' = [convResult EXCEPT ![cur] = "T"]
    /\ pc' = "convert_ret"

\* _benchmark_model, lines 218-232: load the interpreter, prepare the input
BenchmarkLoad ==
    /\ pc = "benchmark"
    /\ inferences' = <<>>
    /\ times' = <<>>
    /\ i' = 0
    /\ \E ok \in BOOLEAN :
        IF ok
        THEN /\ pc' = "warmup"
             /\ UNCHANGED <<benchOutcome, benchFailure, convResult>>
        ELSE BenchmarkEnds("load")
    /\ UNCHANGED <<args, fs, dirs, exitStatus, exc, pipe, cur, converter,
                   output_path, fs0, verifyResult, calib, log>>

\* WarmupInference with one warm-up run too few
WarmupInference_OneShort ==
    /\ pc = "warmup"
    /\ IF i < WarmupRuns - 1
       THEN \E ok \in BOOLEAN :
            IF ok
            THEN /\ inferences' = Append(inferences, "warmup")
                 /\ i' = i + 1
                 /\ UNCHANGED <<pc, benchOutcome, benchFailure, convResult>>
            ELSE /\ BenchmarkEnds("inference")
                 /\ inferences' = <<>>
                 /\ i' = 0
       ELSE /\ pc' = "timed"
            /\ i' = 0
            /\ UNCHANGED <<inferences, benchOutcome, benchFailure, convResult>>
    /\ UNCHANGED <<args, fs, dirs, exitStatus, exc, pipe, cur, converter,
                   output_path, fs0, verifyResult, calib, times, log>>

\* _benchmark_model, lines 235-237: for _ in range(5)
WarmupInference ==
    /\ pc = "warmup"
    /\ IF i < WarmupRuns
       THEN \E ok \in BOOLEAN :
            IF ok
            THEN /\ inferences' = Append(inferences, "warmup")
                 /\ i' = i + 1
                 /\ UNCHANGED <<pc, benchOutcome, benchFailure, convResult>>
            ELSE /\ BenchmarkEnds("inference")
                 /\ inferences' = <<>>
                 /\ i' = 0
       ELSE /\ pc' = "timed"
            /\ i' = 0
            /\ UNCHANGED <<inferences, benchOutcome, benchFailure, convResult>>
    /\ UNCHANGED <<args, fs, dirs, exitStatus, exc, pipe, cur, converter,
                   output_path, fs0, verifyResult, calib, times, log>>

\* _benchmark_model, lines 241-247: for _ in range(num_runs)
TimedInference ==
    /\ pc = "timed"
    /\ IF i < num_runs
       THEN \E ok \in BOOLEAN :
            IF ok
            THEN /\ inferences' = Append(inferences, "timed")
                 /\ times' = Append(times, "ms")
                 /\ i' = i + 1
                 /\ UNCHANGED <<pc, benchOutcome, benchFailure, convResult>>
            ELSE /\ BenchmarkEnds("inference")
                 /\ inferences' = <<>>
                 /\ times' = <<>>
                 /\ i' = 0
       ELSE /\ pc' = "report"
            /\ UNCHANGED <<inferences, times, i, benchOutcome, benchFailure,
                           convResult>>
    /\ UNCHANGED <<args, fs, dirs, exitStatus, exc, pipe, cur, converter,
                   output_path, fs0, verifyResult, calib, log>>

\* _benchmark_model, lines 249-259: mean, std, fps, file size; an exception
\* here (a zero mean, a failing stat) is caught like the others
BenchmarkReport ==
    /\ pc = "report"
    /\ \E ok \in BOOLEAN :
        BenchmarkEnds(IF ok THEN "none" ELSE "report")
    /\ UNCHANGED <<args, fs, dirs, exitStatus, exc, pipe, cur, converter,
                   output_path, fs0, verifyResult, calib, bench, log>>

\* the locals of convert_to_tflite and _benchmark_model end with the call
ConvertLocalsDropped ==
    /\ converter' = NoConverter
    /\ output_path' = ""
    /\ benchFailure' = "none"
    /\ inferences' = <<>>
    /\ times' = <<>>
    /\ i' = 0

\* ConvertAllVariantsLoop leaving the loop at the first failed variant
ConvertAllVariantsLoop_BreakOnFailure ==
    /\ pc = "convert_ret"
    /\ args.quantization = "all"
    /\ success' = IF convResult[cur] # "T" THEN FALSE ELSE success
    /\ pc' = IF variants = <<>> \/ convResult[cur] # "T"
             THEN "metadata" ELSE "convert"
    /\ ConvertLocalsDropped
    /\ UNCHANGED <<args, fs, dirs, exitStatus, exc, exportResult, onnxVerified,
                   variants, cur, fs0, convResult, verifyResult, benchOutcome,
                   calib, log>>

\* convert_all_variants, lines 310-316: the loop over the variants
ConvertAllVariantsLoop ==
    /\ pc = "convert_ret"
    /\ args.quantization = "all"
    /\ success' = IF convResult[cur] # "T" THEN FALSE ELSE success
    /\ pc' = IF variants = <<>> THEN "metadata" ELSE "convert"
    /\ ConvertLocalsDropped
    /\ UNCHANGED <<args, fs, dirs, exitStatus, exc, exportResult, onnxVerified,
                   variants, cur, fs0, convResult, verifyResult, benchOutcome,
                   calib, log>>

\* MainAfterConvert dropping the return value of convert_to_tflite
MainAfterConvert_ResultIgnored ==
    /\ pc = "convert_ret"
    /\ args.quantization # "all"
    /\ pc' = "metadata"
    /\ ConvertLocalsDropped
    /\ UNCHANGED <<args, fs, dirs, exitStatus, exc, exportResult, onnxVerified,
                   success, variants, cur, fs0, convResult, verifyResult,
                   benchOutcome, calib, log>>

\* MainAfterConvert writing the metadata only after a successful conversion
MainAfterConvert_MetadataOnSuccess ==
    /\ pc = "convert_ret"
    /\ args.quantization # "all"
    /\ success' = (convResult[cur] = "T")
    /\ pc' = IF convResult[cur] = "T" THEN "metadata" ELSE "return"
    /\ ConvertLocalsDropped
    /\ UNCHANGED <<args, fs, dirs, exitStatus, exc, exportResult, onnxVerified,
                   variants, cur, fs0, convResult, verifyResult, benchOutcome,
                   calib, log>>

\* main, line 348: success = converter.convert_to_tflite(args.quantization)
MainAfterConvert ==
    /\ pc = "convert_ret"
    /\ args.quantization # "all"
    /\ success' = (convResult[cur] = "T")
    /\ pc' = "metadata"
    /\ ConvertLocalsDropped
    /\ UNCHANGED <<args, fs, dirs, exitStatus, exc, exportResult, onnxVerified,
                   variants, cur, fs0, convResult, verifyResult, benchOutcome,
                   calib, log>>

\* the record create_model_metadata serialises
Metadata(a) ==
    [state |-> "run", kind |-> "json", name |-> a.model_name,
     input_shape |-> <<1, input_size, input_size, 3>>,
     input_type |-> "float32", size |-> 1]

\* create_model_metadata (lines 319 and 349): open and json.dump, nothing
\* caught: an exception reaches main's except
CreateModelMetadata ==
    /\ pc = "metadata"
    /\ \E out \in {"open_raises", "dump_raises", "ok"} :
        LET called == Append(log, Ev("create_model_metadata", "")) IN
        IF out = "ok"
        THEN /\ fs' = [fs EXCEPT ![metadata_path(args)] = Metadata(args)]
             /\ log' = Append(called, Ev("write", metadata_path(args)))
             /\ pc' = "return"
             /\ UNCHANGED exc
        ELSE /\ exc' = "metadata"
             /\ pc' = "except"
             /\ IF out = "dump_raises"
                THEN /\ fs' = [fs EXCEPT ![metadata_path(args)] =
                                              PartialFile("json")]
                     /\ log' = Append(called, Ev("write", metadata_path(args)))
                ELSE /\ log' = called
                     /\ UNCHANGED fs
    /\ UNCHANGED <<args, dirs, exitStatus, pipe, conv, diag, calib, bench>>

\* main, lines 351-361: the exit status of a run that raised nothing
MainReturn ==
    /\ pc = "return"
    /\ exitStatus' = IF success THEN 0 ELSE 1
    /\ pc' = "done"
    /\ UNCHANGED <<args, fs, dirs, exc, pipe, conv, diag, calib, bench, log>>

\* main, lines 363-365: except Exception: return 1
MainExcept ==
    /\ pc = "except"
    /\ exitStatus' = 1
    /\ pc' = "done"
    /\ UNCHANGED <<args, fs, dirs, exc, pipe, conv, diag, calib, bench, log>>

Next ==
    \/ MainValidateInput
    \/ ConstructConverter
    \/ LoadYoloModel
    \/ ExportToOnnx
    \/ ConvertAllVariantsAfterExport
    \/ MainAfterExport
    \/ ConvertBegin
    \/ CalibRequest
    \/ CalibNext
    \/ ConvertAndWrite
    \/ VerifyTfliteModel
    \/ BenchmarkLoad
    \/ WarmupInference
    \/ TimedInference
    \/ BenchmarkReport
    \/ ConvertAllVariantsLoop
    \/ MainAfterConvert
    \/ CreateModelMetadata
    \/ MainReturn
    \/ MainExcept

Spec == Init /\ [][Next]_vars

TypeOK ==
    /\ pc \in {"main", "init", "load", "export", "export_ret", "convert",
               "converting", "verify", "benchmark", "warmup", "timed",
               "report", "convert_ret", "metadata", "return", "except", "done"}
    /\ exitStatus \in {-1, 0, 1}
    /\ success \in BOOLEAN
    /\ gen.yielded \in 0..CalibrationSamples
    /\ i \in 0..num_runs

\* ---- helpers of the properties ----
Count(op) == Cardinality({k \in 1..Len(log) : log[k].op = op})
CountEv(op, arg) == Cardinality({k \in 1..Len(log) : log[k] = Ev(op, arg)})
RunEnded == pc \in {"return", "except", "done"}
SourceMissing == ~Exists(fs, PathStr(args.model_path))
IsConvertCall(e) == e.op = "convert_to_tflite"
ConvertAttempts ==
    LET cl == SelectSeq(log, IsConvertCall)
    IN  [k \in 1..Len(cl) |-> cl[k].arg]
IsPrefix(s, t) == Len(s) <= Len(t) /\ \A k \in 1..Len(s) : s[k] = t[k]
Positions(op) == {k \in 1..Len(log) : log[k].op = op}
ModePath(m) ==
    CASE m = "none" -> Join(args.output_dir, args.model_name \o ".tflite")
      [] m = "fp16" -> Join(args.output_dir, args.model_name \o "_fp16.tflite")
      [] m = "int8" -> Join(args.output_dir, args.model_name \o "_int8.tflite")
InterchangePath == Join(args.output_dir, args.model_name \o ".onnx")
SidecarPath == Join(args.output_dir, args.model_name \o "_metadata.json")
IsArtifactOf(f, m) ==
    f.state = "run" /\ f.kind = "tflite" /\ f.name = m /\ f.size > 0
SelectedModes == IF args.quantization = "all" THEN Modes ELSE {args.quantization}

\* C1: a run whose source model path does not exist ends with exit status 1
\* and has, at every moment, made no filesystem write (no directory, no
\* interchange file, no artifact, no metadata) and no call to load the model
\* or to the library export.
C1_MissingSourceFailsBeforeAnyEffect ==
    SourceMissing =>
        /\ pc \in {"main", "done"}
        /\ pc = "done" => exitStatus = 1
        /\ log = <<>>
        /\ fs = fs0
        \* the output directory is there only if it held files before the run
        /\ args.output_dir \in dirs => Exists(fs, InterchangePath)

C1_Witness == SourceMissing /\ pc = "done" /\ exitStatus = 1

\* C2 as stated: every finished run of convert_all_variants has attempted
\* export_to_onnx exactly once and, when the export succeeded, convert_to_tflite
\* exactly three times in the order none, fp16, int8.
C2_Original ==
    (args.quantization = "all" /\ Count("load_yolo_model") = 1 /\ RunEnded) =>
        /\ Count("export_to_onnx") = 1
        /\ exportResult = "T" => ConvertAttempts = <<"none", "fp16", "int8">>

\* C2 amended: in every run of convert_all_variants in which load_yolo_model
\* does not raise, export_to_onnx is attempted exactly once and, when it
\* succeeds, convert_to_tflite is attempted exactly three times in the order
\* none, fp16, int8, whatever the earlier modes returned; nothing is retried.
C2_ExportOnceConvertThriceInOrder ==
    args.quantization = "all" =>
        /\ Count("load_yolo_model") <= 1
        /\ Count("export_to_onnx") <= 1
        /\ Count("model.export") <= 1
        /\ IsPrefix(ConvertAttempts, <<"none", "fp16", "int8">>)
        /\ (Count("load_yolo_model") = 1 /\ RunEnded /\ exc # "load") =>
               /\ Count("export_to_onnx") = 1
               /\ exportResult = "T" =>
                      ConvertAttempts = <<"none", "fp16", "int8">>

C2_Witness ==
    /\ args.quantization = "all"
    /\ pc = "done"
    /\ exportResult = "T"
    /\ convResult["none"] = "F"
    /\ convResult["fp16"] = "T"
    /\ convResult["int8"] = "F"
    /\ ConvertAttempts = <<"none", "fp16", "int8">>

\* C3: convert_to_tflite returns True exactly when its convert-and-write step
\* put the artifact in place; a verification or benchmark failure never leaves
\* it False; and convert_all_variants, after a successful export, returns the
\* conjunction of the three convert results.
C3_AggregateIsAndOfConverts ==
    /\ pc = "convert_ret" =>
           (convResult[cur] = "T" <=>
                /\ IsArtifactOf(fs[ModePath(cur)], cur)
                /\ log[Len(log)] = Ev("write", ModePath(cur)))
    /\ \A m \in Modes :
           (verifyResult[m] # "none" \/ benchOutcome[m] # "none") =>
               convResult[m] # "F"
    /\ (args.quantization = "all" /\ pc = "return" /\ exportResult = "T") =>
           (success <=> \A m \in Modes : convResult[m] = "T")

C3_Witness ==
    /\ args.quantization = "all"
    /\ pc = "return"
    /\ success
    /\ \E m \in Modes : verifyResult[m] = "F"
    /\ \E m \in Modes : benchOutcome[m] = "failed"

\* C4: a run with an existing source path ends with status 0 or 1, and with 0
\* exactly when the load did not raise, the export returned True, every
\* selected mode was converted successfully and the metadata write did not
\* raise.
C4_ExitStatus ==
    (pc = "done" /\ ~SourceMissing) =>
        /\ exitStatus \in {0, 1}
        /\ exitStatus = 0 <=>
               /\ exc \notin {"load", "metadata"}
               /\ exportResult = "T"
               /\ \A m \in SelectedModes : convResult[m] = "T"
               /\ \A m \in Modes : convResult[m] # "F"

C4_Witness ==
    /\ pc = "done"
    /\ exitStatus = 1
    /\ args.quantization = "fp16"
    /\ exportResult = "T"
    /\ convResult["fp16"] = "F"
    /\ exc = "none"

\* C5: whenever export_to_onnx has returned True, the file at the configured
\* interchange path is the one the library exported in this run, and the
\* library's default location no longer holds it (unless the two coincide).
C5_ExportSuccessMeansRelocated ==
    exportResult = "T" =>
        /\ fs[InterchangePath].state = "run"
        /\ fs[InterchangePath].kind = "onnx"
        /\ generated_onnx(args) # InterchangePath =>
               ~Exists(fs, generated_onnx(args))

\* C6: when convert_to_tflite(X) has written its artifact, and when it returns
\* True, the path of mode X holds a non-empty artifact of mode X, every other
\* file (the other two artifacts, the interchange file, the metadata file) is
\* as it was when the call began, and the three mode paths are distinct from
\* one another and from the interchange and metadata paths.
C6_ConvertWritesOnlyItsModePath ==
    (\/ pc \in {"verify", "benchmark", "warmup", "timed", "report"}
     \/ pc = "convert_ret" /\ convResult[cur] = "T") =>
        /\ IsArtifactOf(fs[ModePath(cur)], cur)
        /\ \A p \in DOMAIN fs \ {ModePath(cur)} : fs[p] = fs0[p]
        /\ CountEv("write", ModePath(cur)) = 1
        /\ Cardinality({ModePath(m) : m \in Modes}
                       \cup {InterchangePath, SidecarPath}) = 5

C6_Witness ==
    /\ pc = "convert_ret"
    /\ cur = "fp16"
    /\ convResult["fp16"] = "T"
    /\ IsArtifactOf(fs0[ModePath("none")], "none")
    /\ fs0[ModePath("fp16")] = StaleFile
    /\ fs0[ModePath("int8")] = StaleFile

\* the inferences of a complete benchmark
FullBenchmark == [k \in 1..55 |-> IF k <= 5 THEN "warmup" ELSE "timed"]
BenchmarkOver == pc = "convert_ret" /\ benchOutcome[cur] # "none"

\* C7 as stated: a benchmark step in which no inference failed has executed 5
\* warm-up inferences and then 50 timed ones, and recorded 50 durations.
C7_Original ==
    (BenchmarkOver /\ benchFailure # "inference") =>
        inferences = FullBenchmark /\ Len(times) = 50

\* C7 amended: a benchmark step in which the interpreter was set up and no
\* inference failed has executed exactly 5 untimed warm-up inferences followed
\* by exactly 50 timed ones and recorded exactly 50 durations; at every moment
\* of a benchmark the inferences so far are a prefix of that sequence and one
\* duration is recorded per timed inference.
C7_BenchmarkFiveThenFifty ==
    /\ IsPrefix(inferences, FullBenchmark)
    /\ Len(times) = Cardinality({k \in 1..Len(inferences) :
                                    inferences[k] = "timed"})
    /\ (BenchmarkOver /\ benchFailure \in {"none", "report"}) =>
           inferences = FullBenchmark /\ Len(times) = 50
    /\ pc = "report" => inferences = FullBenchmark /\ Len(times) = 50

C7_Witness ==
    /\ BenchmarkOver
    /\ benchFailure = "none"
    /\ benchOutcome[cur] = "ok"
    /\ Len(inferences) = 55
    /\ Len(times) = 50

\* C8: only the int8 conversion requests the calibration stream; a stream never
\* yields more than 100 tensors, has yielded exactly 100 when it ends, and
\* every tensor has shape (1, 640, 640, 3).
C8_CalibrationStream ==
    /\ calibBy \subseteq {"int8"}
    /\ gen.state # "none" => cur = "int8"
    /\ gen.yielded <= 100
    /\ gen.state = "exhausted" => gen.yielded = 100
    /\ calibShapes \subseteq {<<1, 640, 640, 3>>}
    /\ gen.yielded > 0 => calibShapes # {}

C8_Witness ==
    /\ cur = "int8"
    /\ calibRequests = 2
    /\ gen.state = "exhausted"
    /\ gen.yielded = 100

\* C9: a metadata file written by the run carries the configured base name,
\* the input shape [1, r, r, 3] of the configured resolution r, and the input
\* type that every artifact converted in the run expects.
C9_MetadataMatchesConfiguration ==
    (fs[SidecarPath].state = "run" /\ fs[SidecarPath].size > 0) =>
        /\ fs[SidecarPath].name = args.model_name
        /\ fs[SidecarPath].input_shape = <<1, input_size, input_size, 3>>
        /\ \A m \in Modes :
               convResult[m] = "T" =>
                   fs[SidecarPath].input_type = fs[ModePath(m)].input_type

\* what C10 says of a failed export: no conversion, no artifact, no metadata,
\* and a failing run
ExportFailureIsEarlyReturn ==
    exportResult = "F" =>
        /\ Count("convert_to_tflite") = 0
        /\ Count("create_model_metadata") = 0
        /\ Count("write") = 0
        /\ pc \in {"export_ret", "return", "done"}
        /\ pc # "export_ret" => ~success
        /\ pc = "done" => exitStatus = 1

\* C10 as stated: a failed export is an early return, and after a successful
\* export the metadata file is written exactly once, after the last convert
\* attempt.
C10_Original ==
    /\ ExportFailureIsEarlyReturn
    /\ (exportResult = "T" /\ RunEnded) =>
           /\ CountEv("write", SidecarPath) = 1
           /\ \A k \in Positions("convert_to_tflite") :
                  k < Len(log)
           /\ log[Len(log)] = Ev("write", SidecarPath)

\* C10 amended: a failed export is an early return (no convert_to_tflite, no
\* artifact, no metadata, a failing run); after a successful export
\* create_model_metadata is called exactly once, after the last convert
\* attempt and whatever the converts returned, and it writes the metadata
\* file exactly once unless it raises.
C10_EarlyReturnAndMetadataOnce ==
    /\ ExportFailureIsEarlyReturn
    /\ Count("create_model_metadata") <= 1
    /\ CountEv("write", SidecarPath) <= 1
    /\ \A k \in Positions("create_model_metadata") :
           \A j \in Positions("convert_to_tflite") : j < k
    /\ (exportResult = "T" /\ RunEnded) =>
           /\ Count("create_model_metadata") = 1
           /\ Len(ConvertAttempts) = Cardinality(SelectedModes)
           /\ exc # "metadata" =>
                  /\ log[Len(log)] = Ev("write", SidecarPath)
                  /\ fs[SidecarPath].state = "run"
                  /\ fs[SidecarPath].size > 0

C10_Witness ==
    /\ pc = "done"
    /\ args.quantization = "int8"
    /\ exportResult = "T"
    /\ convResult["int8"] = "F"
    /\ fs[SidecarPath].state = "run"
    /\ fs[SidecarPath].size > 0

====
